---- MODULE Spec2Model ----
(***************************************************************************)
(* Model of the HTMLDiff library (src/src/main.js).                        *)
(*                                                                         *)
(* A string is a sequence of one-character strings; a token is a string;   *)
(* a token sequence is a sequence of tokens.  All indices into token       *)
(* sequences are 0-based, as in the source; element i of a JavaScript      *)
(* array t is t[i + 1] here.  The JavaScript value undefined is the string *)
(* "undefined".                                                            *)
(***************************************************************************)
EXTENDS Integers, Sequences, FiniteSets, TLC

VARIABLES before, after, beforeTokens, afterTokens, range, pc, ret

vars == <<before, after, beforeTokens, afterTokens, range, pc, ret>>

(***************************************************************************)
(* Bounds of the model.                                                    *)
(***************************************************************************)
MaxLen == 3
MaxBeforeTokens == 4
MaxAfterTokens == 3
MaxMatchTokens == 3
MaxOps == 3

(***************************************************************************)
(* Characters: one word character, one whitespace character, the two tag   *)
(* delimiters and one punctuation character.                               *)
(***************************************************************************)
WordChars == {"a"}
WhitespaceChars == {" "}
Chars == WordChars \cup WhitespaceChars \cup {"<", ">", "."}

Undefined == "undefined"

SeqsUpTo(S, n) == UNION {[1..k -> S] : k \in 0..n}

Strings == SeqsUpTo(Chars, MaxLen)

RECURSIVE Join(_)
\* Array.prototype.join(''): the concatenation of the tokens, in order.
Join(tokens) ==
  IF tokens = <<>> THEN <<>> ELSE Head(tokens) \o Join(Tail(tokens))

\* Array.prototype.slice(from, to) with 0 <= from: elements from..to-1 (0-based).
Slice(arr, from, to) ==
  LET hi == IF to > Len(arr) THEN Len(arr) ELSE to
  IN  IF from >= hi THEN <<>> ELSE SubSeq(arr, from + 1, hi)

(***************************************************************************)
(* Character classes.                                                      *)
(***************************************************************************)
isEndOfTag(char) == char = ">"

isStartOfTag(char) == char = "<"

isWhitespace(char) == char \in WhitespaceChars

\* /[\w#@]/i.test(char)
isWordChar(char) == char \in WordChars

(***************************************************************************)
(* htmlToTokens                                                            *)
(***************************************************************************)
\* Mutant: pushes the current token also when it is empty.
PushCurrentAlways(tokens, currentToken) == Append(tokens, currentToken)

\* if (currentToken) tokens.push(currentToken)
PushCurrent(tokens, currentToken) ==
  IF currentToken # <<>> THEN Append(tokens, currentToken) ELSE tokens

\* One iteration of the for loop: the scanner state after reading char.
TokenStep(st, char) ==
  CASE st.mode = "tag" ->
         IF isEndOfTag(char)
         THEN [tokens |-> Append(st.tokens, Append(st.currentToken, char)),
               currentToken |-> <<>>,
               mode |-> IF isWhitespace(char) THEN "whitespace" ELSE "char"]
         ELSE [st EXCEPT !.currentToken = Append(st.currentToken, char)]
    [] st.mode = "char" ->
         IF isStartOfTag(char)
         THEN [tokens |-> PushCurrent(st.tokens, st.currentToken),
               currentToken |-> <<char>>, mode |-> "tag"]
         ELSE IF isWhitespace(char)
         THEN [tokens |-> PushCurrent(st.tokens, st.currentToken),
               currentToken |-> <<char>>, mode |-> "whitespace"]
         ELSE IF isWordChar(char)
         THEN [st EXCEPT !.currentToken = Append(st.currentToken, char)]
         ELSE [tokens |-> PushCurrent(st.tokens, st.currentToken),
               currentToken |-> <<char>>, mode |-> "char"]
    [] st.mode = "whitespace" ->
         IF isStartOfTag(char)
         THEN [tokens |-> PushCurrent(st.tokens, st.currentToken),
               currentToken |-> <<char>>, mode |-> "tag"]
         ELSE IF isWhitespace(char)
         THEN [st EXCEPT !.currentToken = Append(st.currentToken, char)]
         ELSE [tokens |-> PushCurrent(st.tokens, st.currentToken),
               currentToken |-> <<char>>, mode |-> "char"]

RECURSIVE TokenScan(_, _, _)
\* The scanner state after the characters i.. of html (1-based i).
TokenScan(html, i, st) ==
  IF i > Len(html) THEN st ELSE TokenScan(html, i + 1, TokenStep(st, html[i]))

htmlToTokens(html) ==
  LET st == TokenScan(html, 1,
                      [tokens |-> <<>>, currentToken |-> <<>>, mode |-> "char"])
  IN  PushCurrent(st.tokens, st.currentToken)

(***************************************************************************)
(* Match                                                                   *)
(***************************************************************************)
Match(startInBefore, startInAfter, length) ==
  [startInBefore |-> startInBefore,
   startInAfter  |-> startInAfter,
   length        |-> length,
   endInBefore   |-> startInBefore + length - 1,
   endInAfter    |-> startInAfter + length - 1]

\* null, as a value comparable with a Match.
Null == [isNull |-> TRUE]

(***************************************************************************)
(* createIndex                                                             *)
(***************************************************************************)
\* Array.prototype.indexOf(token, from): the first 0-based position >= from
\* that holds token, or -1.
IndexOf(inThese, token, from) ==
  LET hits == {i \in from..(Len(inThese) - 1) : inThese[i + 1] = token}
  IN  IF hits = {} THEN -1 ELSE CHOOSE i \in hits : \A j \in hits : i <= j

RECURSIVE Occurrences(_, _, _, _)
\* The while loop of createIndex: idx is the position just found (or -1).
Occurrences(inThese, token, idx, found) ==
  IF idx = -1 THEN found
  ELSE Occurrences(inThese, token, IndexOf(inThese, token, idx + 1),
                   Append(found, idx))

\* The index object: one key per token of findThese.
createIndex(findThese, inThese) ==
  [token \in {findThese[k] : k \in 1..Len(findThese)} |->
     Occurrences(inThese, token, IndexOf(inThese, token, 0), <<>>)]

(***************************************************************************)
(* findMatch                                                               *)
(***************************************************************************)
\* Mutant: a run of the same length as the best one replaces it.
IsBetterOrEqual(newMatchLength, bestMatchLength) ==
  newMatchLength >= bestMatchLength

\* if (newMatchLength > bestMatchLength)
IsBetter(newMatchLength, bestMatchLength) == newMatchLength > bestMatchLength

\* matchLengthAt[key] || 0, for an object whose keys are positions.
LengthAt(matchLengthAt, key) ==
  IF key \in DOMAIN matchLengthAt THEN matchLengthAt[key] ELSE 0

\* index[lookingFor] || []
LocationsOf(index, lookingFor) ==
  IF lookingFor \in DOMAIN index THEN index[lookingFor] ELSE <<>>

RECURSIVE FindMatchInner(_, _, _, _, _, _, _, _)
\* The inner for loop of findMatch over locationsInAfter, from its k-th
\* element (1-based k); acc holds the best match so far and newMatchLengthAt.
FindMatchInner(locationsInAfter, k, indexInBefore, startInAfter, endInAfter, matchLengthAt, newMatchLengthAt, best) ==
  IF k > Len(locationsInAfter)
  THEN [best |-> best, newMatchLengthAt |-> newMatchLengthAt]
  ELSE LET indexInAfter == locationsInAfter[k] IN
    IF indexInAfter < startInAfter
    THEN FindMatchInner(locationsInAfter, k + 1, indexInBefore, startInAfter,
                        endInAfter, matchLengthAt, newMatchLengthAt, best)
    ELSE IF indexInAfter >= endInAfter
    THEN [best |-> best, newMatchLengthAt |-> newMatchLengthAt]
    ELSE
      LET previousMatchLength == LengthAt(matchLengthAt, indexInAfter - 1)
          newMatchLength == previousMatchLength + 1
          newAt == [j \in DOMAIN newMatchLengthAt \cup {indexInAfter} |->
                      IF j = indexInAfter THEN newMatchLength
                      ELSE newMatchLengthAt[j]]
          newBest ==
            IF IsBetter(newMatchLength, best.bestMatchLength)
            THEN [bestMatchInBefore |-> indexInBefore - newMatchLength + 1,
                  bestMatchInAfter  |-> indexInAfter - newMatchLength + 1,
                  bestMatchLength   |-> newMatchLength]
            ELSE best
      IN  FindMatchInner(locationsInAfter, k + 1, indexInBefore, startInAfter,
                         endInAfter, matchLengthAt, newAt, newBest)

RECURSIVE FindMatchOuter(_, _, _, _, _, _, _, _)
\* The outer for loop of findMatch, from indexInBefore on.
FindMatchOuter(tokensBefore, index, indexInBefore, endInBefore, startInAfter, endInAfter, matchLengthAt, best) ==
  IF ~(indexInBefore < endInBefore) THEN best
  ELSE
    LET lookingFor == tokensBefore[indexInBefore + 1]
        locationsInAfter == LocationsOf(index, lookingFor)
        row == FindMatchInner(locationsInAfter, 1, indexInBefore, startInAfter,
                              endInAfter, matchLengthAt, <<>>, best)
    IN  FindMatchOuter(tokensBefore, index, indexInBefore + 1, endInBefore,
                       startInAfter, endInAfter, row.newMatchLengthAt, row.best)

findMatch(tokensBefore, tokensAfter, index, startInBefore, endInBefore, startInAfter, endInAfter) ==
  LET best == FindMatchOuter(tokensBefore, index, startInBefore, endInBefore,
                             startInAfter, endInAfter, <<>>,
                             [bestMatchInBefore |-> startInBefore,
                              bestMatchInAfter  |-> startInAfter,
                              bestMatchLength   |-> 0])
  IN  IF best.bestMatchLength # 0
      THEN Match(best.bestMatchInBefore, best.bestMatchInAfter,
                 best.bestMatchLength)
      ELSE Null

(***************************************************************************)
(* findMatchingBlocks                                                      *)
(***************************************************************************)
\* Mutant: the right-hand range starts one past the match's first token.
RightStartFromStart(match) == match.startInBefore + 1

\* match.endInBefore + 1: where the right-hand range starts in before.
RightStartInBefore(match) == match.endInBefore + 1

\* match.endInAfter + 1: where the right-hand range starts in after.
RightStartInAfter(match) == match.endInAfter + 1

RECURSIVE recursivelyFindMatchingBlocks(_, _, _, _, _, _, _, _)
recursivelyFindMatchingBlocks(tokensBefore, tokensAfter, index, startInBefore, endInBefore, startInAfter, endInAfter, matchingBlocks) ==
  LET match == findMatch(tokensBefore, tokensAfter, index, startInBefore,
                         endInBefore, startInAfter, endInAfter)
  IN  IF match = Null THEN matchingBlocks
      ELSE
        LET afterLeft ==
              IF startInBefore < match.startInBefore
                 /\ startInAfter < match.startInAfter
              THEN recursivelyFindMatchingBlocks(
                     tokensBefore, tokensAfter, index,
                     startInBefore, match.startInBefore,
                     startInAfter, match.startInAfter, matchingBlocks)
              ELSE matchingBlocks
            pushed == Append(afterLeft, match)
        IN  IF match.endInBefore < endInBefore /\ match.endInAfter < endInAfter
            THEN recursivelyFindMatchingBlocks(
                   tokensBefore, tokensAfter, index,
                   RightStartInBefore(match), endInBefore,
                   RightStartInAfter(match), endInAfter, pushed)
            ELSE pushed

findMatchingBlocks(tokensBefore, tokensAfter) ==
  recursivelyFindMatchingBlocks(tokensBefore, tokensAfter,
                                createIndex(tokensBefore, tokensAfter),
                                0, Len(tokensBefore), 0, Len(tokensAfter), <<>>)

(***************************************************************************)
(* calculateOperations                                                     *)
(***************************************************************************)
\* The actionMap table, keyed by the two "match starts at the current
\* position" flags.
actionMap(startsInBefore, startsInAfter) ==
  CASE ~startsInBefore /\ ~startsInAfter -> "replace"
    [] startsInBefore /\ ~startsInAfter  -> "insert"
    [] ~startsInBefore /\ startsInAfter  -> "delete"
    [] startsInBefore /\ startsInAfter   -> "none"

Operation(action, startInBefore, endInBefore, startInAfter, endInAfter) ==
  [action |-> action,
   startInBefore |-> startInBefore, endInBefore |-> endInBefore,
   startInAfter |-> startInAfter, endInAfter |-> endInAfter]

\* Mutant: no terminal match is appended, so trailing content is not flushed.
NoSentinel(matches, tokensBefore, tokensAfter) == matches

\* matches.push(new Match(beforeTokens.length, afterTokens.length, 0))
WithSentinel(matches, tokensBefore, tokensAfter) ==
  Append(matches, Match(Len(tokensBefore), Len(tokensAfter), 0))

RECURSIVE DeriveOperations(_, _, _, _, _)
\* The for loop over matches, from the k-th match (1-based k).
DeriveOperations(matches, k, positionInBefore, positionInAfter, operations) ==
  IF k > Len(matches) THEN operations
  ELSE
    LET match == matches[k]
        action == actionMap(positionInBefore = match.startInBefore,
                            positionInAfter = match.startInAfter)
        withGap ==
          IF action # "none"
          THEN Append(operations,
                 Operation(action,
                   positionInBefore,
                   IF action # "insert" THEN match.startInBefore - 1
                   ELSE Undefined,
                   positionInAfter,
                   IF action # "delete" THEN match.startInAfter - 1
                   ELSE Undefined))
          ELSE operations
        withEqual ==
          IF match.length # 0
          THEN Append(withGap,
                 Operation("equal", match.startInBefore, match.endInBefore,
                           match.startInAfter, match.endInAfter))
          ELSE withGap
    IN  DeriveOperations(matches, k + 1, match.endInBefore + 1,
                         match.endInAfter + 1, withEqual)

\* The operations list as it is handed to postProcessOperations.
derivedOperations(tokensBefore, tokensAfter) ==
  DeriveOperations(
    WithSentinel(findMatchingBlocks(tokensBefore, tokensAfter),
                 tokensBefore, tokensAfter),
    1, 0, 0, <<>>)

(***************************************************************************)
(* postProcessOperations                                                   *)
(***************************************************************************)
isSingleWhitespace(op, tokensBefore) ==
  IF op.action # "equal" THEN FALSE
  ELSE IF op.endInBefore - op.startInBefore # 0 THEN FALSE
  ELSE LET token == Join(Slice(tokensBefore, op.startInBefore,
                               op.endInBefore + 1))
       IN  Len(token) = 1 /\ isWhitespace(token[1])

\* Mutant: folding extends the before-range only.
FoldBeforeOnly(lastOp, op) == [lastOp EXCEPT !.endInBefore = op.endInBefore]

\* lastOp.endInBefore = op.endInBefore; lastOp.endInAfter = op.endInAfter
Fold(lastOp, op) ==
  [lastOp EXCEPT !.endInBefore = op.endInBefore, !.endInAfter = op.endInAfter]

RECURSIVE PostProcessFrom(_, _, _, _)
\* The for loop over operations, from the k-th (1-based k).  lastOp is the
\* object pushed last, so assigning to it changes the last element of
\* processed; before anything is pushed it is { action: 'none' }.
PostProcessFrom(operations, k, tokensBefore, processed) ==
  IF k > Len(operations) THEN processed
  ELSE
    LET op == operations[k]
        lastAction == IF processed = <<>> THEN "none"
                      ELSE processed[Len(processed)].action
    IN  IF \/ isSingleWhitespace(op, tokensBefore) /\ lastAction = "replace"
           \/ op.action = "replace" /\ lastAction = "replace"
        THEN PostProcessFrom(operations, k + 1, tokensBefore,
               [processed EXCEPT
                  ![Len(processed)] = Fold(processed[Len(processed)], op)])
        ELSE PostProcessFrom(operations, k + 1, tokensBefore,
                             Append(processed, op))

postProcessOperations(operations, tokensBefore) ==
  PostProcessFrom(operations, 1, tokensBefore, <<>>)

(***************************************************************************)
(* createDiffObjects                                                       *)
(***************************************************************************)
\* Mutant: counts tokens instead of characters.
getTokenCount(tokens, startToken, endToken) ==
  Len(Slice(tokens, startToken, endToken))

\* tokens.slice(startToken, endToken).join('').length
getTextPosition(tokens, startToken, endToken) ==
  Len(Join(Slice(tokens, startToken, endToken)))

\* x || y for a number x: y when x is 0.
NumberOr(x, y) == IF x = 0 THEN y ELSE x

\* The record pushed for one operation (the switch on op.action).
DiffObject(tokensBefore, tokensAfter, op) ==
  CASE op.action = "equal" ->
         LET equalText == Join(Slice(tokensBefore, op.startInBefore,
                                     op.endInBefore + 1))
             beforeStart == getTextPosition(tokensBefore, 0, op.startInBefore)
             afterStart == getTextPosition(tokensAfter, 0, op.startInAfter)
         IN  [type |-> "equal",
              text |-> equalText,
              beforeStartPosition |-> beforeStart,
              beforeEndPosition |-> beforeStart + Len(equalText) - 1,
              afterStartPosition |-> afterStart,
              afterEndPosition |-> afterStart + Len(equalText) - 1,
              length |-> Len(equalText)]
    [] op.action = "insert" ->
         LET insertedText == Join(Slice(tokensAfter, op.startInAfter,
                                        op.endInAfter + 1))
             insertAfterStart ==
               getTextPosition(tokensAfter, 0, op.startInAfter)
         IN  [type |-> "insert",
              text |-> insertedText,
              afterStartPosition |-> insertAfterStart,
              afterEndPosition |-> insertAfterStart + Len(insertedText) - 1,
              length |-> Len(insertedText),
              beforePosition |->
                getTextPosition(tokensBefore, 0,
                  NumberOr(op.startInBefore, Len(tokensBefore)))]
    [] op.action = "delete" ->
         LET deletedText == Join(Slice(tokensBefore, op.startInBefore,
                                       op.endInBefore + 1))
             deleteBeforeStart ==
               getTextPosition(tokensBefore, 0, op.startInBefore)
         IN  [type |-> "delete",
              text |-> deletedText,
              beforeStartPosition |-> deleteBeforeStart,
              beforeEndPosition |-> deleteBeforeStart + Len(deletedText) - 1,
              length |-> Len(deletedText),
              afterPosition |->
                getTextPosition(tokensAfter, 0,
                  NumberOr(op.startInAfter, Len(tokensAfter)))]
    [] op.action = "replace" ->
         LET deletedTextReplace == Join(Slice(tokensBefore, op.startInBefore,
                                              op.endInBefore + 1))
             insertedTextReplace == Join(Slice(tokensAfter, op.startInAfter,
                                               op.endInAfter + 1))
             replaceBeforeStart ==
               getTextPosition(tokensBefore, 0, op.startInBefore)
             replaceAfterStart ==
               getTextPosition(tokensAfter, 0, op.startInAfter)
         IN  [type |-> "replace",
              oldText |-> deletedTextReplace,
              newText |-> insertedTextReplace,
              beforeStartPosition |-> replaceBeforeStart,
              beforeEndPosition |->
                replaceBeforeStart + Len(deletedTextReplace) - 1,
              afterStartPosition |-> replaceAfterStart,
              afterEndPosition |->
                replaceAfterStart + Len(insertedTextReplace) - 1,
              oldLength |-> Len(deletedTextReplace),
              newLength |-> Len(insertedTextReplace)]

createDiffObjects(tokensBefore, tokensAfter, operations) ==
  [k \in 1..Len(operations) |->
     DiffObject(tokensBefore, tokensAfter, operations[k])]

(***************************************************************************)
(* wrapWithTag                                                             *)
(***************************************************************************)
\* /^\s*<[^>]+>\s*$/.test(token): whitespace, "<", one or more characters
\* other than ">", ">", whitespace.
isTag(token) ==
  \E i \in 1..Len(token) : \E j \in (i + 2)..Len(token) :
    /\ \A k \in 1..(i - 1) : isWhitespace(token[k])
    /\ token[i] = "<"
    /\ \A k \in (i + 1)..(j - 1) : token[k] # ">"
    /\ token[j] = ">"
    /\ \A k \in (j + 1)..Len(token) : isWhitespace(token[k])

RECURSIVE LastMatchingIndex(_, _, _, _)
\* The for loop of consecutiveWhere over subset, from i (0-based).  The
\* predicate is a function from tokens to booleans (both predicates passed
\* return booleans), so the loop stops at the first token it rejects.
LastMatchingIndex(subset, i, predicate, lastMatchingIndex) ==
  IF ~(i < Len(subset)) THEN lastMatchingIndex
  ELSE IF predicate[subset[i + 1]]
       THEN LastMatchingIndex(subset, i + 1, predicate, i)
       ELSE lastMatchingIndex

consecutiveWhere(start, content, predicate) ==
  LET subset == Slice(content, start, Len(content))
      lastMatchingIndex == LastMatchingIndex(subset, 0, predicate, -1)
  IN  IF lastMatchingIndex >= 0 THEN Slice(subset, 0, lastMatchingIndex + 1)
      ELSE <<>>

\* The characters of the wrapper tag's name.
TagName(tag) == IF tag = "ins" THEN <<"i", "n", "s">> ELSE <<"d", "e", "l">>

OpenTag(tag) == <<"<">> \o TagName(tag) \o <<">">>

CloseTag(tag) == <<"<", "/">> \o TagName(tag) \o <<">">>

\* `<${tag}>${nonTags.join('')}</${tag}>`
Wrapped(tag, nonTags) == OpenTag(tag) \o Join(nonTags) \o CloseTag(tag)

\* Mutant: every token counts as a non-tag token.
AnyToken(token) == TRUE

\* token => !this.isTag(token)
NotTag(token) == ~isTag(token)

RECURSIVE WrapLoop(_, _, _, _)
\* The while loop of wrapWithTag.
WrapLoop(tag, content, position, rendering) ==
  IF ~(position < Len(content)) THEN rendering
  ELSE
    LET tokens == {content[k] : k \in 1..Len(content)}
        nonTags == consecutiveWhere(position, content,
                                    [token \in tokens |-> NotTag(token)])
        position1 == position + Len(nonTags)
        rendering1 == IF Len(nonTags) > 0
                      THEN rendering \o Wrapped(tag, nonTags)
                      ELSE rendering
    IN  IF position1 >= Len(content) THEN rendering1
        ELSE LET tags == consecutiveWhere(position1, content,
                                          [token \in tokens |-> isTag(token)])
             IN  WrapLoop(tag, content, position1 + Len(tags),
                          rendering1 \o Join(tags))

wrapWithTag(tag, content) == WrapLoop(tag, content, 0, <<>>)

\* The four closures of operationMap.
operationMap(op, tokensBefore, tokensAfter) ==
  LET inserted == wrapWithTag("ins", Slice(tokensAfter, op.startInAfter,
                                           op.endInAfter + 1))
      deleted == wrapWithTag("del", Slice(tokensBefore, op.startInBefore,
                                          op.endInBefore + 1))
  IN  CASE op.action = "equal" ->
             Join(Slice(tokensBefore, op.startInBefore, op.endInBefore + 1))
        [] op.action = "insert" -> inserted
        [] op.action = "delete" -> deleted
        [] op.action = "replace" -> inserted \o deleted

(***************************************************************************)
(* Outcomes of a call: a returned value or a thrown error.                 *)
(***************************************************************************)
Returned(value) == [outcome |-> "returned", value |-> value]

Threw(error) == [outcome |-> "threw", error |-> error]

\* An argument of calculateOperations: an array, or null / undefined.
Present(tokens) == [isNull |-> FALSE, tokens |-> tokens]

\* !x for such an argument: true when it is null or undefined.
IsAbsent(x) == x.isNull

\* calculateOperations with its two guards; derived is the local operations
\* list as it stands when postProcessOperations is called.
calculateOperationsCall(argBefore, argAfter) ==
  IF IsAbsent(argBefore) THEN Threw("beforeTokens is required")
  ELSE IF IsAbsent(argAfter) THEN Threw("afterTokens is required")
  ELSE LET operations == derivedOperations(argBefore.tokens, argAfter.tokens)
       IN  [outcome |-> "returned",
            value |-> postProcessOperations(operations, argBefore.tokens),
            derived |-> operations]

\* diff(before, after)
diff(stringBefore, stringAfter) ==
  IF stringBefore = stringAfter
  THEN Returned(<< [type |-> "equal",
                    text |-> stringBefore,
                    startPosition |-> 0,
                    endPosition |-> Len(stringBefore) - 1,
                    length |-> Len(stringBefore)] >>)
  ELSE
    LET tokensBefore == htmlToTokens(stringBefore)
        tokensAfter == htmlToTokens(stringAfter)
        operations == calculateOperationsCall(Present(tokensBefore),
                                              Present(tokensAfter))
    IN  IF operations.outcome = "threw" THEN operations
        ELSE Returned(createDiffObjects(tokensBefore, tokensAfter,
                                        operations.value))

\* diffToHTML(before, after).  HTMLDiff has no renderOperations method, so
\* the call this.renderOperations(...) throws a TypeError.
diffToHTML(stringBefore, stringAfter) ==
  IF stringBefore = stringAfter THEN Returned(stringBefore)
  ELSE
    LET tokensBefore == htmlToTokens(stringBefore)
        tokensAfter == htmlToTokens(stringAfter)
        operations == calculateOperationsCall(Present(tokensBefore),
                                              Present(tokensAfter))
    IN  IF operations.outcome = "threw" THEN operations
        ELSE Threw("TypeError: this.renderOperations is not a function")

(***************************************************************************)
(* The string-level specification: the inputs are two strings, and each    *)
(* action is one call of an entry point on them.                           *)
(***************************************************************************)
NoRange == [startInBefore |-> 0, endInBefore |-> 0,
            startInAfter |-> 0, endInAfter |-> 0]

Init ==
  /\ before \in Strings
  /\ after \in Strings
  /\ beforeTokens = <<>>
  /\ afterTokens = <<>>
  /\ range = NoRange
  /\ pc = "start"
  /\ ret = <<>>

\* htmlToTokens(before)
HtmlToTokens ==
  /\ pc = "start"
  /\ pc' = "htmlToTokens"
  /\ ret' = htmlToTokens(before)
  /\ UNCHANGED <<before, after, beforeTokens, afterTokens, range>>

\* diff(before, after); beforeTokens and afterTokens record the locals.
Diff ==
  /\ pc = "start"
  /\ pc' = "diff"
  /\ ret' = diff(before, after)
  /\ beforeTokens' = htmlToTokens(before)
  /\ afterTokens' = htmlToTokens(after)
  /\ UNCHANGED <<before, after, range>>

\* diffToHTML(before, after)
DiffToHTML ==
  /\ pc = "start"
  /\ pc' = "diffToHTML"
  /\ ret' = diffToHTML(before, after)
  /\ UNCHANGED <<before, after, beforeTokens, afterTokens, range>>

Next == HtmlToTokens \/ Diff \/ DiffToHTML

Spec == Init /\ [][Next]_vars

(***************************************************************************)
(* The token-level specification: the inputs are two token sequences, and  *)
(* each action is one call of a method of HTMLDiff on them.                *)
(***************************************************************************)
\* A word, a whitespace character, a tag, and "<>", which the tokenizer
\* produces in tag mode but which does not match the isTag pattern.
Tokens == { <<"a">>, <<" ">>, <<"<", "a", ">">>, <<"<", ">">> }

InitOps ==
  /\ before = <<>>
  /\ after = <<>>
  /\ beforeTokens \in SeqsUpTo(Tokens, MaxBeforeTokens)
  /\ afterTokens \in SeqsUpTo(Tokens, MaxAfterTokens)
  /\ range = NoRange
  /\ pc = "start"
  /\ ret = <<>>

\* findMatchingBlocks(beforeTokens, afterTokens)
FindMatchingBlocks ==
  /\ pc = "start"
  /\ pc' = "findMatchingBlocks"
  /\ ret' = findMatchingBlocks(beforeTokens, afterTokens)
  /\ UNCHANGED <<before, after, beforeTokens, afterTokens, range>>

\* calculateOperations(beforeTokens, afterTokens), or the same call with one
\* or both arguments null.
CalculateOperations ==
  /\ pc = "start"
  /\ pc' = "calculateOperations"
  /\ \E argBefore \in {Present(beforeTokens), Null} :
       \E argAfter \in {Present(afterTokens), Null} :
         ret' = [args |-> <<argBefore, argAfter>>,
                 result |-> calculateOperationsCall(argBefore, argAfter)]
  /\ UNCHANGED <<before, after, beforeTokens, afterTokens, range>>

\* wrapWithTag(tag, beforeTokens)
WrapWithTag ==
  /\ pc = "start"
  /\ pc' = "wrapWithTag"
  /\ \E tag \in {"ins", "del"} :
       ret' = [tag |-> tag, rendering |-> wrapWithTag(tag, beforeTokens)]
  /\ UNCHANGED <<before, after, beforeTokens, afterTokens, range>>

NextOps == FindMatchingBlocks \/ CalculateOperations \/ WrapWithTag

SpecOps == InitOps /\ [][NextOps]_vars

(***************************************************************************)
(* The specification of findMatch: the inputs are two token sequences and  *)
(* a half-open range in each.                                              *)
(***************************************************************************)
MatchTokens == { <<"a">>, <<" ">>, <<"<", "a", ">">> }

InitMatch ==
  /\ before = <<>>
  /\ after = <<>>
  /\ beforeTokens \in SeqsUpTo(MatchTokens, MaxMatchTokens)
  /\ afterTokens \in SeqsUpTo(MatchTokens, MaxMatchTokens)
  /\ \E sb \in 0..Len(beforeTokens), sa \in 0..Len(afterTokens) :
       \E eb \in sb..Len(beforeTokens), ea \in sa..Len(afterTokens) :
         range = [startInBefore |-> sb, endInBefore |-> eb,
                  startInAfter |-> sa, endInAfter |-> ea]
  /\ pc = "start"
  /\ ret = <<>>

\* findMatch(beforeTokens, afterTokens, createIndex(beforeTokens,
\* afterTokens), range...)
FindMatch ==
  /\ pc = "start"
  /\ pc' = "findMatch"
  /\ ret' = findMatch(beforeTokens, afterTokens,
                      createIndex(beforeTokens, afterTokens),
                      range.startInBefore, range.endInBefore,
                      range.startInAfter, range.endInAfter)
  /\ UNCHANGED <<before, after, beforeTokens, afterTokens, range>>

NextMatch == FindMatch

SpecMatch == InitMatch /\ [][NextMatch]_vars

(***************************************************************************)
(* The specification of postProcessOperations: the inputs are a token      *)
(* sequence and a list of operations over it.                              *)
(***************************************************************************)
\* A word, a single whitespace character and a run of two.
PostTokens == { <<"a">>, <<" ">>, <<" ", " ">> }

\* The shape of an operation: its action and the number of tokens it spans
\* in before and in after (the same number for an equal operation, none on
\* the side an insert or a delete does not have).
OpShapes ==
  {[action |-> "equal", inBefore |-> n, inAfter |-> n] : n \in 1..2}
  \cup {[action |-> "insert", inBefore |-> 0, inAfter |-> n] : n \in 1..2}
  \cup {[action |-> "delete", inBefore |-> n, inAfter |-> 0] : n \in 1..2}
  \cup {[action |-> "replace", inBefore |-> n, inAfter |-> m] :
          n \in 1..2, m \in 1..2}

RECURSIVE OperationsOf(_, _, _, _)
\* The operation objects of the shapes from the k-th on, laid out one after
\* the other from positionInBefore and positionInAfter, with the fields
\* calculateOperations gives an operation of each action.
OperationsOf(shapes, k, positionInBefore, positionInAfter) ==
  IF k > Len(shapes) THEN <<>>
  ELSE
    LET shape == shapes[k]
        op == Operation(shape.action,
                positionInBefore,
                IF shape.action # "insert"
                THEN positionInBefore + shape.inBefore - 1 ELSE Undefined,
                positionInAfter,
                IF shape.action # "delete"
                THEN positionInAfter + shape.inAfter - 1 ELSE Undefined)
    IN  <<op>> \o OperationsOf(shapes, k + 1,
                               positionInBefore + shape.inBefore,
                               positionInAfter + shape.inAfter)

RECURSIVE TokensInBefore(_)
TokensInBefore(shapes) ==
  IF shapes = <<>> THEN 0
  ELSE Head(shapes).inBefore + TokensInBefore(Tail(shapes))

InitPost ==
  /\ before = <<>>
  /\ after = <<>>
  /\ beforeTokens \in SeqsUpTo(PostTokens, MaxMatchTokens)
  /\ afterTokens = <<>>
  /\ range = NoRange
  /\ pc = "start"
  /\ ret = <<>>

\* postProcessOperations(operations, beforeTokens), for a list of up to
\* MaxOps operations whose before-ranges lie inside beforeTokens.
PostProcessOperations ==
  /\ pc = "start"
  /\ pc' = "postProcessOperations"
  /\ \E shapes \in SeqsUpTo(OpShapes, MaxOps) :
       /\ TokensInBefore(shapes) <= Len(beforeTokens)
       /\ LET operations == OperationsOf(shapes, 1, 0, 0)
          IN  ret' = [operations |-> operations,
                      processed |-> postProcessOperations(operations,
                                                          beforeTokens)]
  /\ UNCHANGED <<before, after, beforeTokens, afterTokens, range>>

NextPost == PostProcessOperations

SpecPost == InitPost /\ [][NextPost]_vars

(***************************************************************************)
(* Helpers of the properties.                                              *)
(***************************************************************************)
RECURSIVE Partitions(_, _, _, _)
\* The ranges <<start, end>> from the k-th on (1-based k) are non-empty,
\* follow each other with no gap and no overlap from cursor on, and end at
\* n - 1.
Partitions(ranges, k, cursor, n) ==
  IF k > Len(ranges) THEN cursor = n
  ELSE /\ ranges[k][1] = cursor
       /\ ranges[k][2] >= ranges[k][1]
       /\ Partitions(ranges, k + 1, ranges[k][2] + 1, n)

HasBeforeRange(op) == op.action \in {"equal", "delete", "replace"}

HasAfterRange(op) == op.action \in {"equal", "insert", "replace"}

BeforeRanges(ops) ==
  LET kept == SelectSeq(ops, HasBeforeRange)
  IN  [k \in 1..Len(kept) |-> <<kept[k].startInBefore, kept[k].endInBefore>>]

AfterRanges(ops) ==
  LET kept == SelectSeq(ops, HasAfterRange)
  IN  [k \in 1..Len(kept) |-> <<kept[k].startInAfter, kept[k].endInAfter>>]

CoversBoth(ops) ==
  /\ Partitions(BeforeRanges(ops), 1, 0, Len(beforeTokens))
  /\ \A k \in 1..Len(ops) :
       ops[k].action \in {"equal", "insert", "delete", "replace"}
  /\ Partitions(AfterRanges(ops), 1, 0, Len(afterTokens))

CalculateReturned ==
  /\ pc = "calculateOperations"
  /\ ret.result.outcome = "returned"

(***************************************************************************)
(* C1: the operations of calculateOperations partition the before indices  *)
(* 0..len-1 through their equal/delete/replace ranges and the after        *)
(* indices through their equal/insert/replace ranges, in ascending order   *)
(* with no gap and no overlap, both as derived from the matches and as     *)
(* returned after postProcessOperations.                                   *)
(***************************************************************************)
C1_Coverage ==
  CalculateReturned =>
    /\ CoversBoth(ret.result.derived)
    /\ CoversBoth(ret.result.value)

\* postProcessOperations has folded operations, and the list holds an insert.
C1_Witness ==
  /\ CalculateReturned
  /\ Len(ret.result.value) < Len(ret.result.derived)
  /\ \E k \in 1..Len(ret.result.value) :
       ret.result.value[k].action = "insert"

(***************************************************************************)
(* C2: the tokens of htmlToTokens(s), concatenated in order, are s, and no *)
(* token is empty.                                                         *)
(***************************************************************************)
C2_Lossless ==
  pc = "htmlToTokens" =>
    /\ Join(ret) = before
    /\ \A k \in 1..Len(ret) : ret[k] # <<>>

\* An unterminated tag after a word and whitespace: three tokens.
C2_Witness ==
  /\ pc = "htmlToTokens"
  /\ before = <<"a", " ", "<">>
  /\ ret = << <<"a">>, <<" ">>, <<"<">> >>

(***************************************************************************)
(* C3: diff(s, s) returns exactly one record, an equal record with the     *)
(* fields of the equal contract: text = s, length = len(s), both start     *)
(* positions 0 and both end positions len(s) - 1.                          *)
(***************************************************************************)
C3_Identity ==
  (pc = "diff" /\ before = after) =>
    /\ ret.outcome = "returned"
    /\ Len(ret.value) = 1
    /\ ret.value[1].type = "equal"
    /\ ret.value[1].text = before
    /\ ret.value[1].length = Len(before)
    /\ {"beforeStartPosition", "beforeEndPosition",
        "afterStartPosition", "afterEndPosition"} \subseteq DOMAIN ret.value[1]
    /\ ret.value[1].beforeStartPosition = 0
    /\ ret.value[1].afterStartPosition = 0
    /\ ret.value[1].beforeEndPosition = Len(before) - 1
    /\ ret.value[1].afterEndPosition = Len(before) - 1

(***************************************************************************)
(* C4: for every pair of strings diff returns a list of records and        *)
(* diffToHTML returns a markup string; calculateOperations throws exactly  *)
(* when one of its token sequences is absent, and then returns nothing.    *)
(***************************************************************************)
C4_Total ==
  /\ pc = "diff" => ret.outcome = "returned"
  /\ pc = "diffToHTML" => ret.outcome = "returned"
  /\ pc = "calculateOperations" =>
       /\ ret.result.outcome = "threw" <=>
            (IsAbsent(ret.args[1]) \/ IsAbsent(ret.args[2]))
       /\ ret.result.outcome = "threw" => "value" \notin DOMAIN ret.result

(***************************************************************************)
(* Reading markup: the wrapper tags and the characters between them.       *)
(***************************************************************************)
StartsWith(m, i, pattern) ==
  /\ i + Len(pattern) - 1 <= Len(m)
  /\ SubSeq(m, i, i + Len(pattern) - 1) = pattern

RECURSIVE MarkupItems(_, _)
\* The markup from its i-th character on (1-based i), as a sequence of
\* items: an opening wrapper tag, a closing wrapper tag, or one character.
MarkupItems(m, i) ==
  IF i > Len(m) THEN <<>>
  ELSE IF StartsWith(m, i, OpenTag("ins"))
  THEN <<[kind |-> "open", tag |-> "ins", ch |-> ""]>>
       \o MarkupItems(m, i + Len(OpenTag("ins")))
  ELSE IF StartsWith(m, i, OpenTag("del"))
  THEN <<[kind |-> "open", tag |-> "del", ch |-> ""]>>
       \o MarkupItems(m, i + Len(OpenTag("del")))
  ELSE IF StartsWith(m, i, CloseTag("ins"))
  THEN <<[kind |-> "close", tag |-> "ins", ch |-> ""]>>
       \o MarkupItems(m, i + Len(CloseTag("ins")))
  ELSE IF StartsWith(m, i, CloseTag("del"))
  THEN <<[kind |-> "close", tag |-> "del", ch |-> ""]>>
       \o MarkupItems(m, i + Len(CloseTag("del")))
  ELSE <<[kind |-> "char", tag |-> "", ch |-> m[i]]>> \o MarkupItems(m, i + 1)

RECURSIVE Keep(_, _, _, _)
\* The characters of the items from the k-th on that are outside every
\* wrapper or inside a wrapper of the tag kept; inside is the tag of the
\* wrapper that is open, or "".
Keep(items, k, inside, kept) ==
  IF k > Len(items) THEN <<>>
  ELSE CASE items[k].kind = "open" -> Keep(items, k + 1, items[k].tag, kept)
         [] items[k].kind = "close" -> Keep(items, k + 1, "", kept)
         [] items[k].kind = "char" ->
              IF inside \in {"", kept}
              THEN <<items[k].ch>> \o Keep(items, k + 1, inside, kept)
              ELSE Keep(items, k + 1, inside, kept)

(***************************************************************************)
(* C5: in the markup of diffToHTML(a, b), the text inside <ins> wrappers   *)
(* together with the unwrapped text is b, and the text inside <del>        *)
(* wrappers together with the unwrapped text is a.                         *)
(***************************************************************************)
C5_RoundTrip ==
  pc = "diffToHTML" =>
    /\ ret.outcome = "returned"
    /\ Keep(MarkupItems(ret.value, 1), 1, "", "ins") = after
    /\ Keep(MarkupItems(ret.value, 1), 1, "", "del") = before

(***************************************************************************)
(* Helpers: the layout of the wrappers in a rendering.                     *)
(***************************************************************************)
RECURSIVE WrapFlags(_, _, _)
\* For every character item from the k-th on, in order: is it in a wrapper?
WrapFlags(items, k, inside) ==
  IF k > Len(items) THEN <<>>
  ELSE CASE items[k].kind = "open" -> WrapFlags(items, k + 1, TRUE)
         [] items[k].kind = "close" -> WrapFlags(items, k + 1, FALSE)
         [] items[k].kind = "char" ->
              <<inside>> \o WrapFlags(items, k + 1, inside)

RECURSIVE WrapperOffsets(_, _, _)
\* The character offsets at which a wrapper tag stands, from the k-th item.
WrapperOffsets(items, k, offset) ==
  IF k > Len(items) THEN {}
  ELSE IF items[k].kind = "char" THEN WrapperOffsets(items, k + 1, offset + 1)
       ELSE {offset} \cup WrapperOffsets(items, k + 1, offset)

RECURSIVE WrappersWellFormed(_, _, _, _)
\* From the k-th item on: wrappers of the given tag only, opened and closed
\* in turn, none empty, and none opened right after another is closed.
WrappersWellFormed(items, k, inside, tag) ==
  IF k > Len(items) THEN ~inside
  ELSE CASE items[k].kind = "open" ->
              /\ ~inside
              /\ items[k].tag = tag
              /\ k < Len(items) /\ items[k + 1].kind = "char"
              /\ (k > 1 => items[k - 1].kind # "close")
              /\ WrappersWellFormed(items, k + 1, TRUE, tag)
         [] items[k].kind = "close" ->
              /\ inside
              /\ items[k].tag = tag
              /\ WrappersWellFormed(items, k + 1, FALSE, tag)
         [] items[k].kind = "char" ->
              WrappersWellFormed(items, k + 1, inside, tag)

CharsOf(items) ==
  LET IsChar(item) == item.kind = "char"
      kept == SelectSeq(items, IsChar)
  IN  [k \in 1..Len(kept) |-> kept[k].ch]

\* The offset in Join(content) of the first character of the k-th token
\* (1-based k); for k = Len(content) + 1, the length of Join(content).
TokenOffset(content, k) == Len(Join(SubSeq(content, 1, k - 1)))

(***************************************************************************)
(* C6: wrapWithTag(tag, content) emits the tokens of content in order;     *)
(* every token matching isTag stands outside every wrapper, every other    *)
(* token inside one; wrappers are <tag>...</tag>, never empty, open and    *)
(* close only between tokens, and enclose maximal runs of non-tag tokens.  *)
(***************************************************************************)
C6_TagSafe ==
  pc = "wrapWithTag" =>
    LET items == MarkupItems(ret.rendering, 1)
        flags == WrapFlags(items, 1, FALSE)
    IN  /\ CharsOf(items) = Join(beforeTokens)
        /\ WrappersWellFormed(items, 1, FALSE, ret.tag)
        /\ WrapperOffsets(items, 1, 0) \subseteq
             {TokenOffset(beforeTokens, k) : k \in 1..(Len(beforeTokens) + 1)}
        /\ \A k \in 1..Len(beforeTokens) :
             \A c \in 1..Len(beforeTokens[k]) :
               flags[TokenOffset(beforeTokens, k) + c] = ~isTag(beforeTokens[k])

\* A run with a tag token between two wrapped runs, one of them holding
\* "<>", a token of the tokenizer's tag mode that isTag does not match.
C6_Witness ==
  /\ pc = "wrapWithTag"
  /\ \E k \in 2..(Len(beforeTokens) - 1) :
       /\ isTag(beforeTokens[k])
       /\ ~isTag(beforeTokens[k - 1])
       /\ beforeTokens[k + 1] = <<"<", ">">>
  /\ Cardinality({k \in 1..Len(MarkupItems(ret.rendering, 1)) :
                    MarkupItems(ret.rendering, 1)[k].kind = "open"}) = 2

(***************************************************************************)
(* Helpers: the characters of before and of after that the records before  *)
(* the k-th cover.                                                         *)
(***************************************************************************)
BeforeLength(r) ==
  CASE r.type \in {"equal", "delete"} -> r.length
    [] r.type = "replace" -> r.oldLength
    [] r.type = "insert" -> 0

AfterLength(r) ==
  CASE r.type \in {"equal", "insert"} -> r.length
    [] r.type = "replace" -> r.newLength
    [] r.type = "delete" -> 0

RECURSIVE BeforeCovered(_, _)
BeforeCovered(records, k) ==
  IF k = 0 THEN 0
  ELSE BeforeCovered(records, k - 1) + BeforeLength(records[k])

RECURSIVE AfterCovered(_, _)
AfterCovered(records, k) ==
  IF k = 0 THEN 0
  ELSE AfterCovered(records, k - 1) + AfterLength(records[k])

DiffReturned ==
  /\ pc = "diff"
  /\ before # after
  /\ ret.outcome = "returned"

(***************************************************************************)
(* C7: the beforePosition of an insert record is the number of characters  *)
(* of before that the earlier records cover, and the afterPosition of a    *)
(* delete record is the number of characters of after that the earlier     *)
(* records cover; it is 0 for a first record.                              *)
(***************************************************************************)
C7_Anchor ==
  DiffReturned =>
    \A k \in 1..Len(ret.value) :
      /\ ret.value[k].type = "insert" =>
           ret.value[k].beforePosition = BeforeCovered(ret.value, k - 1)
      /\ ret.value[k].type = "delete" =>
           ret.value[k].afterPosition = AfterCovered(ret.value, k - 1)

\* text is the characters start..end (0-based, inclusive) of string.
IsSubstringAt(string, text, start, end, length) ==
  /\ length = Len(text)
  /\ start >= 0
  /\ end = start + length - 1
  /\ end < Len(string)
  /\ text = SubSeq(string, start + 1, end + 1)

(***************************************************************************)
(* C8: for before # after, the before-side text of every record of diff is *)
(* the substring of before at its before positions and its after-side text *)
(* the substring of after at its after positions, with end = start +       *)
(* length - 1; the two sides of an equal record are the same text.         *)
(***************************************************************************)
C8_Positions ==
  DiffReturned =>
    \A k \in 1..Len(ret.value) :
      LET r == ret.value[k] IN
        CASE r.type = "equal" ->
               /\ IsSubstringAt(before, r.text, r.beforeStartPosition,
                                r.beforeEndPosition, r.length)
               /\ IsSubstringAt(after, r.text, r.afterStartPosition,
                                r.afterEndPosition, r.length)
          [] r.type = "insert" ->
               IsSubstringAt(after, r.text, r.afterStartPosition,
                             r.afterEndPosition, r.length)
          [] r.type = "delete" ->
               IsSubstringAt(before, r.text, r.beforeStartPosition,
                             r.beforeEndPosition, r.length)
          [] r.type = "replace" ->
               /\ IsSubstringAt(before, r.oldText, r.beforeStartPosition,
                                r.beforeEndPosition, r.oldLength)
               /\ IsSubstringAt(after, r.newText, r.afterStartPosition,
                                r.afterEndPosition, r.newLength)

\* An equal record at different offsets in before and after, after an
\* insert, and a replace record.
C8_Witness ==
  /\ DiffReturned
  /\ \E k \in 1..Len(ret.value) :
       /\ ret.value[k].type = "equal"
       /\ ret.value[k].beforeStartPosition # ret.value[k].afterStartPosition
  /\ \E k \in 1..Len(ret.value) : ret.value[k].type = "replace"

(***************************************************************************)
(* Helpers: common runs of the two token sequences inside the ranges.      *)
(***************************************************************************)
\* The length tokens from sb in before and from sa in after lie inside the
\* ranges and are pairwise equal.
CommonRun(sb, sa, length, r) ==
  /\ length >= 1
  /\ r.startInBefore <= sb /\ sb + length <= r.endInBefore
  /\ r.startInAfter <= sa /\ sa + length <= r.endInAfter
  /\ \A k \in 0..(length - 1) :
       beforeTokens[sb + k + 1] = afterTokens[sa + k + 1]

FullRange == [startInBefore |-> 0, endInBefore |-> Len(beforeTokens),
              startInAfter |-> 0, endInAfter |-> Len(afterTokens)]

IsMatch(m) ==
  /\ m # Null
  /\ DOMAIN m = {"startInBefore", "startInAfter", "length",
                 "endInBefore", "endInAfter"}
  /\ m.endInBefore = m.startInBefore + m.length - 1
  /\ m.endInAfter = m.startInAfter + m.length - 1

(***************************************************************************)
(* C9: findMatch returns null exactly when no token of the before-range    *)
(* equals a token of the after-range; otherwise it returns a common run    *)
(* inside both ranges of the greatest length, and among the runs of that   *)
(* length the one with the smallest startInBefore and then the smallest    *)
(* startInAfter.                                                           *)
(***************************************************************************)
C9_LongestRun ==
  pc = "findMatch" =>
    /\ ret = Null <=>
         ~ \E i \in range.startInBefore..(range.endInBefore - 1) :
             \E j \in range.startInAfter..(range.endInAfter - 1) :
               beforeTokens[i + 1] = afterTokens[j + 1]
    /\ ret # Null =>
         /\ IsMatch(ret)
         /\ CommonRun(ret.startInBefore, ret.startInAfter, ret.length, range)
         /\ \A sb \in 0..Len(beforeTokens), sa \in 0..Len(afterTokens) :
              \A length \in 1..Len(beforeTokens) :
                CommonRun(sb, sa, length, range) =>
                  /\ length <= ret.length
                  /\ length = ret.length =>
                       \/ sb > ret.startInBefore
                       \/ sb = ret.startInBefore /\ sa >= ret.startInAfter

\* A before-range that starts inside the sequence, and three common runs of
\* the greatest length: the one returned, one later in before and earlier in
\* after, and one at the same place in before and later in after.
C9_Witness ==
  /\ pc = "findMatch"
  /\ ret # Null
  /\ range.startInBefore > 0
  /\ \E sb \in 0..Len(beforeTokens), sa \in 0..Len(afterTokens) :
       /\ sb > ret.startInBefore
       /\ sa < ret.startInAfter
       /\ CommonRun(sb, sa, ret.length, range)
  /\ \E sa \in 0..Len(afterTokens) :
       /\ sa > ret.startInAfter
       /\ CommonRun(ret.startInBefore, sa, ret.length, range)

(***************************************************************************)
(* C10: findMatchingBlocks returns matches of length >= 1 over pairwise    *)
(* equal tokens, each starting after the end of the one before it in both  *)
(* sequences; the match of the whole range stands between the matches      *)
(* found to its left and those found to its right.                         *)
(***************************************************************************)
C10_Blocks ==
  pc = "findMatchingBlocks" =>
    /\ \A k \in 1..Len(ret) :
         /\ IsMatch(ret[k])
         /\ CommonRun(ret[k].startInBefore, ret[k].startInAfter,
                      ret[k].length, FullRange)
    /\ \A k \in 1..(Len(ret) - 1) :
         /\ ret[k + 1].startInBefore > ret[k].endInBefore
         /\ ret[k + 1].startInAfter > ret[k].endInAfter
    /\ LET whole == findMatch(beforeTokens, afterTokens,
                              createIndex(beforeTokens, afterTokens),
                              0, Len(beforeTokens), 0, Len(afterTokens))
       IN  IF whole = Null THEN ret = <<>>
           ELSE \E k \in 1..Len(ret) : ret[k] = whole

\* The match of the whole range is the second of two: the first was found
\* by the recursion into the range to its left.
C10_Witness ==
  /\ pc = "findMatchingBlocks"
  /\ Len(ret) = 2
  /\ ret[2] = findMatch(beforeTokens, afterTokens,
                        createIndex(beforeTokens, afterTokens),
                        0, Len(beforeTokens), 0, Len(afterTokens))

(***************************************************************************)
(* Helpers: the character class of a token of htmlToTokens.                *)
(***************************************************************************)
\* A token of tag mode: tag mode is entered on "<" only, and "<" always
\* enters it.
IsTagModeToken(token) == token[1] = "<"

IsWhitespaceRun(token) == \A c \in 1..Len(token) : isWhitespace(token[c])

IsWordRun(token) == \A c \in 1..Len(token) : isWordChar(token[c])

IsPunctuation(char) ==
  ~isStartOfTag(char) /\ ~isWhitespace(char) /\ ~isWordChar(char)

(***************************************************************************)
(* C11: every token of htmlToTokens outside tag mode is a maximal          *)
(* whitespace run, a maximal run of word-class characters, or one          *)
(* punctuation character; a punctuation character never shares a token     *)
(* with another character.                                                 *)
(***************************************************************************)
C11_Classes ==
  pc = "htmlToTokens" =>
    /\ \A k \in 1..Len(ret) :
         \/ IsTagModeToken(ret[k])
         \/ IsWhitespaceRun(ret[k])
         \/ IsWordRun(ret[k])
         \/ Len(ret[k]) = 1 /\ IsPunctuation(ret[k][1])
    /\ \A k \in 1..(Len(ret) - 1) :
         /\ ~(IsWhitespaceRun(ret[k]) /\ IsWhitespaceRun(ret[k + 1]))
         /\ ~(IsWordRun(ret[k]) /\ IsWordRun(ret[k + 1]))

(***************************************************************************)
(* Helpers: which operations of a list the folding rule folds.             *)
(***************************************************************************)
\* An equal operation of exactly one token whose text is one whitespace
\* character.
IsWhitespaceEqual(op) ==
  /\ op.action = "equal"
  /\ op.endInBefore = op.startInBefore
  /\ op.startInBefore < Len(beforeTokens)
  /\ Len(beforeTokens[op.startInBefore + 1]) = 1
  /\ beforeTokens[op.startInBefore + 1][1] \in WhitespaceChars

RECURSIVE LastEmitted(_, _)
RECURSIVE IsFolded(_, _)
\* The index of the last of the first k operations that is emitted, or 0.
LastEmitted(ops, k) ==
  IF k = 0 THEN 0
  ELSE IF IsFolded(ops, k) THEN LastEmitted(ops, k - 1) ELSE k

\* The k-th operation is folded: the operation emitted last before it is a
\* replace, and it is a replace or a one-token single-whitespace equal.
IsFolded(ops, k) ==
  LET j == LastEmitted(ops, k - 1)
  IN  /\ j > 0
      /\ ops[j].action = "replace"
      /\ ops[k].action = "replace" \/ IsWhitespaceEqual(ops[k])

\* The emitted operations' indices, in order.
EmittedIndices(ops) ==
  LET IsEmitted(k) == ~IsFolded(ops, k)
  IN  SelectSeq([k \in 1..Len(ops) |-> k], IsEmitted)

\* The operation emitted for index e: ops[e], with its two ends moved to
\* those of the last operation folded into it, if any.
EmittedFor(ops, e) ==
  LET folded == {k \in (e + 1)..Len(ops) :
                   \A j \in (e + 1)..k : IsFolded(ops, j)}
      last == CHOOSE k \in folded : \A j \in folded : j <= k
  IN  IF folded = {} THEN ops[e]
      ELSE [ops[e] EXCEPT !.endInBefore = ops[last].endInBefore,
                          !.endInAfter = ops[last].endInAfter]

(***************************************************************************)
(* C12: postProcessOperations folds an operation into the operation        *)
(* emitted last exactly when that one is a replace and the operation is a  *)
(* replace or a one-token single-whitespace equal: the folded operation is *)
(* not emitted and its two ends become the ends of the operation emitted   *)
(* last.  Every other operation is emitted unchanged and in order.  So the *)
(* output is no longer than the input, and in it no replace is followed by *)
(* a replace or by a one-token single-whitespace equal.                    *)
(***************************************************************************)
C12_Folding ==
  pc = "postProcessOperations" =>
    LET ops == ret.operations
        out == ret.processed
        emitted == EmittedIndices(ops)
    IN  /\ Len(out) = Len(emitted)
        /\ \A i \in 1..Len(emitted) : out[i] = EmittedFor(ops, emitted[i])
        /\ Len(out) <= Len(ops)
        /\ \A i \in 1..(Len(out) - 1) :
             out[i].action = "replace" =>
               /\ out[i + 1].action # "replace"
               /\ ~IsWhitespaceEqual(out[i + 1])

\* A replace, a single-whitespace equal and a replace, folded into one
\* replace that spans all three.
C12_Witness ==
  /\ pc = "postProcessOperations"
  /\ Len(ret.operations) = 3
  /\ ret.operations[1].action = "replace"
  /\ IsWhitespaceEqual(ret.operations[2])
  /\ ret.operations[3].action = "replace"
  /\ Len(ret.processed) = 1
  /\ ret.processed[1].endInBefore = ret.operations[3].endInBefore
  /\ ret.processed[1].endInAfter = ret.operations[3].endInAfter

====
